---- MODULE Spec2Model ----
(***************************************************************************)
(* Sensor platform of the Google Wifi integration                          *)
(* (custom_components/googlewifi/sensor.py).                               *)
(*                                                                         *)
(* Python values are tagged records: None, numbers, floats (a decimal      *)
(* mantissa and exponent), strings, sets and dicts (a function from the    *)
(* keys that are present).  An evaluation either returns a value or raises *)
(* an exception; both are Results.                                         *)
(***************************************************************************)
EXTENDS Integers, Sequences, FiniteSets, TLC

VARIABLES data, options, entities, platform, calls, requests, last

vars == <<data, options, entities, platform, calls, requests, last>>

----------------------------------------------------------------------------
(* Bounds of the model.                                                    *)

MaxSpeedIdx == 1

MaxCount == 1

MaxFw == 2

MaxCalls == 2

----------------------------------------------------------------------------
(* Python values and results.                                              *)

PyNone == [tag |-> "None"]

PyNum(n) == [tag |-> "num", n |-> n]

(* The float m * 10^e, held with the least mantissa: equal numbers are     *)
(* equal values (5.0 is 500 * 10^-2 and 5 * 10^0).                         *)
RECURSIVE PyFloat(_, _)
PyFloat(m, e) ==
    IF m = 0 THEN [tag |-> "float", m |-> 0, e |-> 0]
    ELSE IF m % 10 = 0 THEN PyFloat(m \div 10, e + 1)
    ELSE [tag |-> "float", m |-> m, e |-> e]

PyStr(s) == [tag |-> "str", s |-> s]

PySet(S) == [tag |-> "set", elems |-> S]

PyDict(f) == [tag |-> "dict", d |-> f]

EmptyDict == PyDict([k \in {} |-> PyNone])

Return(v) == [tag |-> "return", v |-> v]

Raise(exc) == [tag |-> "raise", exc |-> exc]

NoResult == [tag |-> "none"]

(* x[k] of Python on the result r of evaluating x: a missing key of a dict *)
(* is a KeyError, a subscript on None or on a number is a TypeError, and   *)
(* an exception raised while evaluating x goes through.                    *)
Subscript(r, k) ==
    IF r.tag = "raise" THEN r
    ELSE IF r.v.tag = "dict"
         THEN IF k \in DOMAIN r.v.d THEN Return(r.v.d[k]) ELSE Raise("KeyError")
         ELSE Raise("TypeError")

(* dict.get(k): the value, or None when the key is missing.                *)
Get(dict, k) == IF k \in DOMAIN dict.d THEN dict.d[k] ELSE PyNone

(* Truth value of a Python object, as tested by `if x:`.                   *)
Truthy(x) ==
    CASE x.tag = "None" -> FALSE
      [] x.tag = "dict" -> DOMAIN x.d # {}
      [] x.tag = "num" -> x.n # 0
      [] OTHER -> TRUE

(* float(x): defined on numbers, a TypeError on None and on a dict.        *)
Float(r) ==
    IF r.tag = "raise" THEN r
    ELSE IF r.v.tag = "num" THEN Return(PyFloat(r.v.n, 0))
         ELSE Raise("TypeError")

(* x *= 10^k                                                               *)
Times10(x, k) == PyFloat(x.m, x.e + k)

RECURSIVE Pow10(_)
Pow10(k) == IF k = 0 THEN 1 ELSE 10 * Pow10(k - 1)

(* round(x, 2): the multiples of 0.01 nearest to x.  A value with at most  *)
(* two decimals is kept.  The product held by the float differs from the   *)
(* decimal value by its binary representation error, so on an exact        *)
(* decimal tie either neighbour can come out.                              *)
Round2(x) ==
    IF x.e >= -2 THEN {x}
    ELSE LET den == Pow10(-2 - x.e)
             q == x.m \div den
             r == x.m % den
         IN  IF 2 * r < den THEN {PyFloat(q, -2)}
             ELSE IF 2 * r > den THEN {PyFloat(q + 1, -2)}
             ELSE {PyFloat(q, -2), PyFloat(q + 1, -2)}

----------------------------------------------------------------------------
(* Constants of the program and of the host framework.  The constants of   *)
(* the integration's const module stand for themselves.                    *)

DATA_RATE_BYTES_PER_SECOND == "B/s"

DATA_RATE_KILOBYTES_PER_SECOND == "kB/s"

DATA_RATE_MEGABYTES_PER_SECOND == "MB/s"

DATA_RATE_GIGABYTES_PER_SECOND == "GB/s"

CONF_SPEED_UNITS == "CONF_SPEED_UNITS"

DOMAIN_NAME == "DOMAIN"

DEV_MANUFACTURER == "DEV_MANUFACTURER"

SERVICE_SPEED_TEST == "speed_test"

SpeedCls == "GoogleWifiSpeedSensor"

CountCls == "GoogleWifiConnectedDevices"

----------------------------------------------------------------------------
(* Entities.                                                               *)

(* GoogleWifiEntity.__init__: the fields of the base class.                *)
GoogleWifiEntity(name, system_id) ==
    [_name |-> name, _system_id |-> system_id, _device_info |-> PyNone]

GoogleWifiSpeedSensor(name, system_id, speed_key, unit_of_measure) ==
    [cls |-> SpeedCls,
     _state |-> PyNone,
     _device_info |-> PyNone,
     _speed_key |-> speed_key,
     _unit_of_measurement |-> unit_of_measure]
    @@ GoogleWifiEntity(name, system_id)

GoogleWifiConnectedDevices(name, system_id, count_type) ==
    [cls |-> CountCls, _count_type |-> count_type]
    @@ GoogleWifiEntity(name, system_id)

(* entry.options.get(CONF_SPEED_UNITS, DATA_RATE_MEGABYTES_PER_SECOND)     *)
SpeedUnitOption(opts) ==
    IF CONF_SPEED_UNITS \in DOMAIN opts.d
    THEN opts.d[CONF_SPEED_UNITS].s
    ELSE DATA_RATE_MEGABYTES_PER_SECOND

(* The five entities of one pass of the loop of async_setup_entry.         *)
SystemEntities(system_id, opts) ==
    << GoogleWifiSpeedSensor(
           "Google Wifi System " \o system_id \o " Upload Speed",
           system_id, "transmitWanSpeedBps", SpeedUnitOption(opts)),
       GoogleWifiSpeedSensor(
           "Google Wifi System " \o system_id \o " Download Speed",
           system_id, "receiveWanSpeedBps", SpeedUnitOption(opts)),
       GoogleWifiConnectedDevices(
           "Google Wifi System " \o system_id \o " Connected Devices",
           system_id, "main"),
       GoogleWifiConnectedDevices(
           "Google Wifi System " \o system_id \o " Guest Devices",
           system_id, "guest"),
       GoogleWifiConnectedDevices(
           "Google Wifi System " \o system_id \o " Total Devices",
           system_id, "total") >>

(* The keys of a dict as a sequence: the order in which items() yields     *)
(* them.                                                                   *)
RECURSIVE ItemsOrder(_)
ItemsOrder(S) ==
    IF S = {} THEN << >>
    ELSE LET k == CHOOSE x \in S : TRUE IN << k >> \o ItemsOrder(S \ {k})

RECURSIVE SetupEntities(_, _)
SetupEntities(ids, opts) ==
    IF ids = << >> THEN << >>
    ELSE SystemEntities(Head(ids), opts) \o SetupEntities(Tail(ids), opts)

----------------------------------------------------------------------------
(* The properties of the entities.  Each takes the entity and the          *)
(* coordinator's snapshot and gives the result of the read and the entity  *)
(* as the read leaves it.                                                  *)

Outcome(res, self) == [res |-> res, self |-> self]

SpeedUniqueId(self) == PyStr(self._system_id \o "_" \o self._speed_key)

CountUniqueId_NoType(self) == PyStr(self._system_id \o "_device_count")

CountUniqueId(self) ==
    PyStr(self._system_id \o "_device_count_" \o self._count_type)

unique_id(self) ==
    IF self.cls = SpeedCls THEN SpeedUniqueId(self) ELSE CountUniqueId(self)

unit_of_measurement(self) ==
    IF self.cls = SpeedCls THEN PyStr(self._unit_of_measurement)
    ELSE PyStr("Devices")

ScaleExp_Divide(unit) ==
    IF unit = DATA_RATE_KILOBYTES_PER_SECOND THEN -3
    ELSE IF unit = DATA_RATE_MEGABYTES_PER_SECOND THEN -6
    ELSE IF unit = DATA_RATE_GIGABYTES_PER_SECOND THEN -9
    ELSE 0

(* The exponent of the scale the unit selects.                             *)
ScaleExp(unit) ==
    IF unit = DATA_RATE_KILOBYTES_PER_SECOND THEN 3
    ELSE IF unit = DATA_RATE_MEGABYTES_PER_SECOND THEN -6
    ELSE IF unit = DATA_RATE_GIGABYTES_PER_SECOND THEN -9
    ELSE 0

(* self.coordinator.data[self._system_id]["speedtest"][self._speed_key]    *)
SpeedValue(self, snap) ==
    Subscript(Subscript(Subscript(Return(PyDict(snap)), self._system_id),
                        "speedtest"), self._speed_key)

(* The body of GoogleWifiSpeedSensor.state, with the snapshot its test     *)
(* sees and the snapshot its fetch sees: the set of outcomes of the read.  *)
SpeedRead(self, tested, fetched) ==
    LET rec == Subscript(Return(PyDict(tested)), self._system_id) IN
    IF rec.tag = "raise" THEN {Outcome(rec, self)}
    ELSE IF ~Truthy(Get(rec.v, "speedtest"))
         THEN {Outcome(Return(self._state), self)}
         ELSE LET f == Float(SpeedValue(self, fetched)) IN
              IF f.tag = "raise" THEN {Outcome(f, self)}
              ELSE { Outcome(Return(x), [self EXCEPT !._state = x]) :
                        x \in Round2(Times10(f.v,
                                 ScaleExp(self._unit_of_measurement))) }

SpeedState_Torn(self, snap) ==
    SpeedRead(self, snap,
              [s \in DOMAIN snap |->
                  PyDict("speedtest" :>
                      PyDict([k \in {"transmitWanSpeedBps",
                                     "receiveWanSpeedBps"} |-> PyNum(1)]))])

(* GoogleWifiSpeedSensor.state: the property has no suspension point, so   *)
(* its test and its fetch see the same snapshot.                           *)
SpeedState(self, snap) == SpeedRead(self, snap, snap)

CountField_Swapped(count_type) ==
    IF count_type = "main" THEN "connected_devices"
    ELSE IF count_type = "guest" THEN "total_devices"
    ELSE "guest_devices"

(* The field a count type reads.                                           *)
CountField(count_type) ==
    IF count_type = "main" THEN "connected_devices"
    ELSE IF count_type = "guest" THEN "guest_devices"
    ELSE "total_devices"

(* GoogleWifiConnectedDevices.state                                        *)
CountState(self, snap) ==
    LET rec == Subscript(Return(PyDict(snap)), self._system_id) IN
    IF rec.tag = "raise" THEN {Outcome(rec, self)}
    ELSE {Outcome(Return(Get(rec.v, CountField(self._count_type))), self)}

state(self, snap) ==
    IF self.cls = SpeedCls THEN SpeedState(self, snap)
    ELSE CountState(self, snap)

(* The exceptions the try block of device_info swallows.                   *)
Swallowed == {"TypeError"}

(* data[system_id]["groupProperties"]["otherProperties"]["firmwareVersion"] *)
FirmwareVersion(self, snap) ==
    Subscript(Subscript(Subscript(
        Subscript(Return(PyDict(snap)), self._system_id),
        "groupProperties"), "otherProperties"), "firmwareVersion")

(* The descriptor built in the try block.                                  *)
Descriptor(self, sw_version) ==
    PyDict([manufacturer |-> PyStr(DEV_MANUFACTURER),
            name |-> PyStr(self._name),
            identifiers |-> PySet({<<DOMAIN_NAME, self._system_id>>}),
            model |-> PyStr("Google Wifi"),
            sw_version |-> sw_version])

(* device_info of both classes.                                            *)
device_info(self, snap) ==
    LET fw == FirmwareVersion(self, snap) IN
    IF fw.tag = "return"
    THEN LET built == Descriptor(self, fw.v)
         IN  {Outcome(Return(built), [self EXCEPT !._device_info = built])}
    ELSE IF fw.exc \in Swallowed
         THEN {Outcome(Return(self._device_info), self)}
         ELSE {Outcome(fw, self)}

----------------------------------------------------------------------------
(* The inputs: system ids, snapshots and options.                          *)

Systems == {"sys1", "sys2"}

SpeedOf(i) == IF i = 0 THEN 0 ELSE 5000000 * i + 1234567 * (i - 1)

Speeds == {SpeedOf(i) : i \in 0..MaxSpeedIdx}

Counts == 0..MaxCount

Firmwares == 1..MaxFw

SpeedKeys == {"transmitWanSpeedBps", "receiveWanSpeedBps"}

CountKeys == {"connected_devices", "guest_devices", "total_devices"}

Units == {DATA_RATE_BYTES_PER_SECOND, DATA_RATE_KILOBYTES_PER_SECOND,
          DATA_RATE_MEGABYTES_PER_SECOND, DATA_RATE_GIGABYTES_PER_SECOND}

(* The dicts over some of the keys K with values in V.                     *)
Dicts(K, V) == {PyDict(f) : f \in UNION {[D -> V] : D \in SUBSET K}}

(* System records that differ in their speedtest entry: missing, null, or  *)
(* a dict holding some of the two speed keys (none of them: an empty       *)
(* dict).                                                                  *)
SpeedRecords ==
    {EmptyDict, PyDict("speedtest" :> PyNone)} \cup
    {PyDict("speedtest" :> st) :
        st \in Dicts(SpeedKeys, {PyNum(v) : v \in Speeds})}

(* System records that differ in their device counts.                      *)
CountRecords == Dicts(CountKeys, {PyNum(c) : c \in Counts})

(* The shapes of groupProperties: missing, null, without otherProperties,  *)
(* with a null one, with one lacking firmwareVersion, and complete.        *)
GroupProperties ==
    {PyNone, EmptyDict, PyDict("otherProperties" :> PyNone),
     PyDict("otherProperties" :> EmptyDict)} \cup
    {PyDict("otherProperties" :> PyDict("firmwareVersion" :> PyNum(f))) :
        f \in Firmwares}

DeviceRecords ==
    {EmptyDict} \cup {PyDict("groupProperties" :> g) : g \in GroupProperties}

(* Records with every field present or every field missing.                *)
WholeRecords ==
    {EmptyDict} \cup
    {PyDict([speedtest |-> PyDict([transmitWanSpeedBps |-> PyNum(SpeedOf(v)),
                                   receiveWanSpeedBps |-> PyNum(SpeedOf(v))]),
             connected_devices |-> PyNum(c),
             guest_devices |-> PyNum(0),
             total_devices |-> PyNum(c),
             groupProperties |->
                 PyDict("otherProperties" :>
                     PyDict("firmwareVersion" :> PyNum(1)))]) :
        v \in 1..MaxSpeedIdx, c \in Counts}

(* The snapshots over some of the systems S with records in R.             *)
Snapshots(S, R) == UNION {[D -> R] : D \in SUBSET S}

AllOptions ==
    {EmptyDict} \cup {PyDict(CONF_SPEED_UNITS :> PyStr(u)) : u \in Units}

DefaultOptions == {EmptyDict}

----------------------------------------------------------------------------
(* The operations.                                                         *)

Op(op, ent, res) == [op |-> op, ent |-> ent, res |-> res]

InitWith(snaps, opts) ==
    /\ data \in snaps
    /\ options \in opts
    /\ entities = << >>
    /\ platform = [loaded |-> FALSE, services |-> {}]
    /\ calls = << >>
    /\ requests = << >>
    /\ last = Op("init", 0, NoResult)

(* The coordinator replaces its snapshot by a new one.                     *)
Refresh(snaps) ==
    /\ \E snap \in snaps : snap # data /\ data' = snap
    /\ last' = Op("refresh", 0, NoResult)
    /\ UNCHANGED <<options, entities, platform, calls, requests>>

async_setup_entry ==
    /\ ~platform.loaded
    /\ entities' = SetupEntities(ItemsOrder(DOMAIN data), options)
    /\ platform' = [loaded |-> TRUE,
                    services |-> {<<SERVICE_SPEED_TEST, "async_speed_test">>}]
    /\ last' = Op("setup", 0, NoResult)
    /\ UNCHANGED <<data, options, calls, requests>>

StoreEntity_Shared(ents, i, self) ==
    [j \in 1..Len(ents) |->
        IF j = i THEN self
        ELSE [ents[j] EXCEPT !._device_info = self._device_info]]

(* The entity list after entity i was left as self by a read.              *)
StoreEntity(ents, i, self) == [ents EXCEPT ![i] = self]

(* A property is a synchronous attribute access: the host can read it      *)
(* whenever the entity exists.                                             *)
CanRead(i) == i \in 1..Len(entities)

Read(op, i, outcomes) ==
    /\ CanRead(i)
    /\ \E o \in outcomes :
          /\ entities' = StoreEntity(entities, i, o.self)
          /\ last' = Op(op, i, o.res)
    /\ UNCHANGED <<data, options, platform, calls, requests>>

ReadState(i) ==
    /\ i \in 1..Len(entities)
    /\ Read("state", i, state(entities[i], data))

ReadDeviceInfo(i) ==
    /\ i \in 1..Len(entities)
    /\ Read("device_info", i, device_info(entities[i], data))

ReadUniqueId(i) ==
    /\ i \in 1..Len(entities)
    /\ Read("unique_id", i,
            {Outcome(Return(unique_id(entities[i])), entities[i])})

ReadUnitOfMeasurement(i) ==
    /\ i \in 1..Len(entities)
    /\ Read("unit_of_measurement", i,
            {Outcome(Return(unit_of_measurement(entities[i])), entities[i])})

SpeedTestSystem_Fixed(self) == "sys1"

(* The system id async_speed_test hands to force_speed_test.               *)
SpeedTestSystem(self) == self._system_id

(* async_speed_test up to its await: the request is with the coordinator   *)
(* and the action is suspended.                                            *)
async_speed_test(i) ==
    /\ i \in 1..Len(entities)
    /\ entities[i].cls = SpeedCls
    /\ <<SERVICE_SPEED_TEST, "async_speed_test">> \in platform.services
    /\ Len(calls) < MaxCalls
    /\ requests' = Append(requests,
                      [system_id |-> SpeedTestSystem(entities[i]),
                       status |-> "pending"])
    /\ calls' = Append(calls, [ent |-> i, status |-> "awaiting",
                               request |-> Len(requests) + 1])
    /\ last' = Op("speed_test", i, NoResult)
    /\ UNCHANGED <<data, options, entities, platform>>

(* What the action ends in when the awaited request ended in status.       *)
AwaitOutcome(status) == IF status = "done" THEN "returned" ELSE "raised"

(* The awaited request ends, in success or in failure, and the action      *)
(* resumes from its await with that outcome.                               *)
SpeedTestEnds(c, status) ==
    /\ c \in 1..Len(calls)
    /\ calls[c].status = "awaiting"
    /\ requests' = [requests EXCEPT ![calls[c].request].status = status]
    /\ calls' = [calls EXCEPT ![c].status = AwaitOutcome(status)]
    /\ last' = Op("speed_test_end", calls[c].ent,
                  IF AwaitOutcome(status) = "returned" THEN Return(PyNone)
                  ELSE Raise("HomeAssistantError"))
    /\ UNCHANGED <<data, options, entities, platform>>

----------------------------------------------------------------------------
(* The specifications.  Each one lets the coordinator swap its snapshot    *)
(* within one family of snapshots and the host use the operations the      *)
(* family exercises.                                                       *)

(* Snapshots in which sys1 has a record of R1 and sys2 one of R2, each     *)
(* system present or not.                                                  *)
Snapshots2(R1, R2) ==
    {snap \in Snapshots(Systems, R1 \cup R2) :
        /\ "sys1" \in DOMAIN snap => snap["sys1"] \in R1
        /\ "sys2" \in DOMAIN snap => snap["sys2"] \in R2}

(* Speed sensors read their state while the speedtest entry changes.       *)
SpeedSnapshots == Snapshots({"sys1"}, SpeedRecords)

InitSpeed == InitWith(SpeedSnapshots, AllOptions)

NextSpeed ==
    \/ async_setup_entry
    \/ Refresh(SpeedSnapshots)
    \/ \E i \in 1..Len(entities) : ReadState(i)

SpecSpeed == InitSpeed /\ [][NextSpeed]_vars

(* Count sensors read their state while the counts of sys1 change and      *)
(* sys2 comes and goes.                                                    *)
CountSnapshots ==
    Snapshots2(CountRecords,
               {EmptyDict,
                PyDict([connected_devices |-> PyNum(MaxCount),
                        guest_devices |-> PyNum(MaxCount),
                        total_devices |-> PyNum(MaxCount)])})

InitCount == InitWith(CountSnapshots, DefaultOptions)

NextCount ==
    \/ async_setup_entry
    \/ Refresh(CountSnapshots)
    \/ \E i \in 1..Len(entities) : ReadState(i)

SpecCount == InitCount /\ [][NextCount]_vars

(* device_info is read while the shape of groupProperties changes.         *)
DeviceSnapshots == Snapshots({"sys1"}, DeviceRecords)

InitDevice == InitWith(DeviceSnapshots, DefaultOptions)

NextDevice ==
    \/ async_setup_entry
    \/ Refresh(DeviceSnapshots)
    \/ \E i \in 1..Len(entities) : ReadDeviceInfo(i)

SpecDevice == InitDevice /\ [][NextDevice]_vars

(* The speed-test action is called on the speed sensors of two systems.    *)
TestSnapshots == Snapshots(Systems, {EmptyDict})

InitTest == InitWith(TestSnapshots, DefaultOptions)

NextTest ==
    \/ async_setup_entry
    \/ Refresh(TestSnapshots)
    \/ \E i \in 1..Len(entities) : async_speed_test(i)
    \/ \E c \in 1..Len(calls), status \in {"done", "failed"} :
          SpeedTestEnds(c, status)

SpecTest == InitTest /\ [][NextTest]_vars

(* Every property of every entity of one system is read.                   *)
FrameSnapshots == Snapshots({"sys1"}, WholeRecords)

InitFrame == InitWith(FrameSnapshots, DefaultOptions)

NextFrame ==
    \/ async_setup_entry
    \/ Refresh(FrameSnapshots)
    \/ \E i \in 1..Len(entities) : ReadState(i)
    \/ \E i \in 1..Len(entities) : ReadDeviceInfo(i)
    \/ \E i \in 1..Len(entities) : ReadUniqueId(i)
    \/ \E i \in 1..Len(entities) : ReadUnitOfMeasurement(i)

SpecFrame == InitFrame /\ [][NextFrame]_vars

(* State reads, snapshot swaps and suspended speed-test actions            *)
(* interleave.                                                             *)
InitInterleave == InitWith(SpeedSnapshots, DefaultOptions)

NextInterleave ==
    \/ async_setup_entry
    \/ Refresh(SpeedSnapshots)
    \/ \E i \in 1..Len(entities) : ReadState(i)
    \/ \E i \in 1..Len(entities) : async_speed_test(i)
    \/ \E c \in 1..Len(calls), status \in {"done", "failed"} :
          SpeedTestEnds(c, status)

SpecInterleave == InitInterleave /\ [][NextInterleave]_vars

(* The platform is set up on snapshots of up to three systems, one of      *)
(* whose ids contains the infix of the count sensors' unique ids.          *)
SetupSystems == {"sys1", "sys2", "sys1_device_count"}

SetupSnapshots == Snapshots(SetupSystems, {EmptyDict})

InitSetup == InitWith(SetupSnapshots, AllOptions)

NextSetup ==
    \/ async_setup_entry
    \/ Refresh(SetupSnapshots)
    \/ \E i \in 1..Len(entities) : ReadUniqueId(i)

SpecSetup == InitSetup /\ [][NextSetup]_vars

----------------------------------------------------------------------------
(* The properties.  last holds the operation that led to the state, the    *)
(* entity it was invoked on and its result; a read leaves the snapshot as  *)
(* it is, so data is the snapshot the read was taken on.                   *)

LastEntity == entities[last.ent]

LastIsRead(op, cls) ==
    /\ last.op = op
    /\ LastEntity.cls = cls
    /\ LastEntity._system_id \in DOMAIN data

LastRecord == data[LastEntity._system_id].d

(* The multiples h of 0.01 nearest to v * 10^-k, for k > 2.                *)
Nearest(v, k) ==
    {PyFloat(h, -2) : h \in {x \in 0..(v \div Pow10(k - 2)) + 1 :
        LET d == v - x * Pow10(k - 2)
        IN  2 * (IF d < 0 THEN -d ELSE d) <= Pow10(k - 2)}}

(* round(v x scale(u), 2) for the four unit selections.                    *)
ScaledRounded(v, u) ==
    CASE u = DATA_RATE_BYTES_PER_SECOND -> {PyFloat(v, 0)}
      [] u = DATA_RATE_KILOBYTES_PER_SECOND -> {PyFloat(v, 3)}
      [] u = DATA_RATE_MEGABYTES_PER_SECOND -> Nearest(v, 6)
      [] u = DATA_RATE_GIGABYTES_PER_SECOND -> Nearest(v, 9)

(* C1: a state read of a speed sensor taken while its system record has no *)
(* speedtest entry returns None, whatever was read before.                 *)
C1_NoSpeedtestIsUnknown ==
    (LastIsRead("state", SpeedCls) /\ "speedtest" \notin DOMAIN LastRecord)
        => last.res = Return(PyNone)

(* C2: a state read of a speed sensor whose speedtest entry holds v under  *)
(* the sensor's key returns round(v x scale(u), 2) for the sensor's unit   *)
(* u, whatever value was cached.                                           *)
C2_StateIsScaledRounded ==
    (/\ LastIsRead("state", SpeedCls)
     /\ "speedtest" \in DOMAIN LastRecord
     /\ LastRecord["speedtest"].tag = "dict"
     /\ LastEntity._speed_key \in DOMAIN LastRecord["speedtest"].d)
        => /\ last.res.tag = "return"
           /\ last.res.v \in
                 ScaledRounded(
                     LastRecord["speedtest"].d[LastEntity._speed_key].n,
                     LastEntity._unit_of_measurement)

(* The example of C2: 5_000_000 read in MB/s is 5.0, over a cached value   *)
(* that was read from another snapshot.                                    *)
C2_Witness ==
    /\ LastIsRead("state", SpeedCls)
    /\ LastEntity._unit_of_measurement = DATA_RATE_MEGABYTES_PER_SECOND
    /\ LastEntity._speed_key = "transmitWanSpeedBps"
    /\ "speedtest" \in DOMAIN LastRecord
    /\ LastRecord["speedtest"] =
           PyDict("transmitWanSpeedBps" :> PyNum(5000000))
    /\ last.res = Return(PyFloat(500, -2))
    /\ LastEntity._state = PyFloat(500, -2)
    /\ \E i \in 1..Len(entities) :
          /\ entities[i].cls = SpeedCls
          /\ entities[i]._speed_key = "receiveWanSpeedBps"
          /\ entities[i]._state = PyFloat(0, -2)

(* C3: a state read of a connected-devices sensor returns the field of its *)
(* category in its own system's record, or None when that field is         *)
(* missing.                                                                *)
C3_CountIsOwnField ==
    LastIsRead("state", CountCls) =>
        LET field == CASE LastEntity._count_type = "main" ->
                               "connected_devices"
                       [] LastEntity._count_type = "guest" -> "guest_devices"
                       [] LastEntity._count_type = "total" -> "total_devices"
        IN  last.res = Return(IF field \in DOMAIN LastRecord
                              THEN LastRecord[field] ELSE PyNone)

(* The guest count is read as 0 from a record whose other two counts are   *)
(* MaxCount, next to a second system whose guest count is MaxCount.        *)
C3_Witness ==
    /\ LastIsRead("state", CountCls)
    /\ LastEntity._system_id = "sys1"
    /\ LastEntity._count_type = "guest"
    /\ LastRecord = [connected_devices |-> PyNum(MaxCount),
                     guest_devices |-> PyNum(0),
                     total_devices |-> PyNum(MaxCount)]
    /\ "sys2" \in DOMAIN data
    /\ "guest_devices" \in DOMAIN data["sys2"].d
    /\ last.res = Return(PyNum(0))

(* C4: a device_info read taken while the system record has no             *)
(* groupProperties key returns the cached descriptor (None when there is   *)
(* none) and does not raise.                                               *)
C4_DeviceInfoWithoutGroupProperties ==
    (/\ last.op = "device_info"
     /\ LastEntity._system_id \in DOMAIN data
     /\ "groupProperties" \notin DOMAIN LastRecord)
        => last.res = Return(LastEntity._device_info)

(* C5: a state read taken while the system record exists does not raise,   *)
(* and it returns None when the speedtest entry lacks the sensor's key.    *)
C5_StateReadDegrades ==
    (last.op = "state" /\ LastEntity._system_id \in DOMAIN data)
        => /\ last.res.tag = "return"
           /\ (/\ LastEntity.cls = SpeedCls
               /\ "speedtest" \in DOMAIN LastRecord
               /\ LastRecord["speedtest"].tag = "dict"
               /\ LastRecord["speedtest"].d # EmptyDict.d
               /\ LastEntity._speed_key \notin DOMAIN LastRecord["speedtest"].d)
                  => last.res = Return(PyNone)

(* The nested firmware version of the last entity's record, when the path  *)
(* to it is complete.                                                      *)
HasFirmwarePath ==
    /\ "groupProperties" \in DOMAIN LastRecord
    /\ LastRecord["groupProperties"].tag = "dict"
    /\ "otherProperties" \in DOMAIN LastRecord["groupProperties"].d
    /\ LastRecord["groupProperties"].d["otherProperties"].tag = "dict"
    /\ "firmwareVersion" \in
          DOMAIN LastRecord["groupProperties"].d["otherProperties"].d

(* C8: a device_info read taken while the path groupProperties ->          *)
(* otherProperties -> firmwareVersion is complete returns and caches a     *)
(* descriptor with that firmware version and the sensor's system id; a     *)
(* read taken on any other shape returns the cached descriptor (None when  *)
(* there is none) and does not raise.                                      *)
C8_DeviceInfoFollowsShape ==
    (last.op = "device_info" /\ LastEntity._system_id \in DOMAIN data)
        => /\ last.res = Return(LastEntity._device_info)
           /\ HasFirmwarePath =>
                 /\ last.res.v.tag = "dict"
                 /\ last.res.v.d["sw_version"] =
                       LastRecord["groupProperties"].d["otherProperties"]
                           .d["firmwareVersion"]
                 /\ last.res.v.d["identifiers"] =
                       PySet({<<DOMAIN_NAME, LastEntity._system_id>>})

(* C6: every invocation of the speed-test action has issued one request of *)
(* its own, for the system of the sensor it was invoked on; it is          *)
(* suspended as long as the request is pending, has returned only if the   *)
(* request is done and has raised if and only if the request failed.       *)
C6_OneRequestPerSpeedTest ==
    /\ Len(requests) = Len(calls)
    /\ \A c \in 1..Len(calls) :
          /\ calls[c].request = c
          /\ entities[calls[c].ent].cls = SpeedCls
          /\ requests[c].system_id = entities[calls[c].ent]._system_id
          /\ calls[c].status = "awaiting" <=> requests[c].status = "pending"
          /\ calls[c].status = "returned" <=> requests[c].status = "done"
          /\ calls[c].status = "raised" <=> requests[c].status = "failed"

(* Two invocations on sensors of different systems: the first one has      *)
(* failed, the second one is still suspended.                              *)
C6_Witness ==
    /\ Len(calls) = 2
    /\ entities[calls[1].ent]._system_id = "sys2"
    /\ entities[calls[2].ent]._system_id = "sys1"
    /\ calls[1].status = "raised"
    /\ requests[1] = [system_id |-> "sys2", status |-> "failed"]
    /\ calls[2].status = "awaiting"
    /\ requests[2] = [system_id |-> "sys1", status |-> "pending"]

SensorOps == {"state", "device_info", "unique_id", "unit_of_measurement"}

(* The fields of an entity other than its two caches.                      *)
FixedFields(self) ==
    [f \in DOMAIN self \ {"_state", "_device_info"} |-> self[f]]

(* C7: a step of a sensor property or of the platform setup leaves the     *)
(* snapshot as it is, and a property read changes at most the cached state *)
(* and the cached descriptor of the entity it was invoked on.              *)
C7_ReadsOnlyTouchOwnCache ==
    [][ /\ last'.op \in SensorOps \cup {"setup"} => data' = data
        /\ last'.op \in SensorOps =>
              /\ UNCHANGED <<options, platform, calls, requests>>
              /\ Len(entities') = Len(entities)
              /\ \A j \in 1..Len(entities) :
                    /\ j # last'.ent => entities'[j] = entities[j]
                    /\ FixedFields(entities'[j]) = FixedFields(entities[j])
      ]_vars

(* A device_info read has cached a descriptor for its entity while another *)
(* entity of the same system still has none, and a state read has cached a *)
(* speed.                                                                  *)
C7_Witness ==
    /\ last.op = "device_info"
    /\ LastEntity._device_info # PyNone
    /\ \E j \in 1..Len(entities) : entities[j]._device_info = PyNone
    /\ \E j \in 1..Len(entities) :
          entities[j].cls = SpeedCls /\ entities[j]._state # PyNone

Awaiting == \E c \in 1..Len(calls) : calls[c].status = "awaiting"

(* C9: the presence check and the fetch of one state read see one          *)
(* snapshot: the read returns a fresh value exactly when the current       *)
(* snapshot has a non-empty speedtest entry holding the sensor's key, and  *)
(* that value is the current one scaled and rounded; otherwise the cached  *)
(* value (or the KeyError of the missing key) comes out.  While a          *)
(* speed-test action is suspended every sensor's state can be read (the    *)
(* guard of the read holds and the read has an outcome), and a state read  *)
(* leaves the suspended actions and their requests as they are.            *)
C9_ReadsAreAtomicAndUnblocked ==
    /\ [](LastIsRead("state", SpeedCls) =>
            LET st == IF "speedtest" \in DOMAIN LastRecord
                      THEN LastRecord["speedtest"] ELSE PyNone
            IN  IF st.tag = "dict" /\ DOMAIN st.d # {}
                THEN IF LastEntity._speed_key \in DOMAIN st.d
                     THEN /\ last.res.tag = "return"
                          /\ last.res.v \in
                                ScaledRounded(st.d[LastEntity._speed_key].n,
                                              LastEntity._unit_of_measurement)
                     ELSE last.res = Raise("KeyError")
                ELSE last.res = Return(LastEntity._state))
    /\ [](Awaiting => \A i \in 1..Len(entities) :
              CanRead(i) /\ state(entities[i], data) # {})
    /\ [][last'.op = "state" => UNCHANGED <<calls, requests, data>>]_vars

(* A state read returned the fresh 5.0 of the current snapshot while a     *)
(* speed-test action of the same sensor was suspended.                     *)
C9_Witness ==
    /\ LastIsRead("state", SpeedCls)
    /\ Awaiting
    /\ \E c \in 1..Len(calls) :
          calls[c].status = "awaiting" /\ calls[c].ent = last.ent
    /\ "speedtest" \in DOMAIN LastRecord
    /\ LastRecord["speedtest"].tag = "dict"
    /\ LastEntity._speed_key \in DOMAIN LastRecord["speedtest"].d
    /\ LastRecord["speedtest"].d[LastEntity._speed_key] = PyNum(5000000)
    /\ last.res = Return(PyFloat(500, -2))

(* The kinds of sensor a system gets: the class with the speed key or the  *)
(* count type.                                                             *)
Kind(self) ==
    IF self.cls = SpeedCls THEN <<self.cls, self._speed_key>>
    ELSE <<self.cls, self._count_type>>

FiveKinds ==
    {<<SpeedCls, "transmitWanSpeedBps">>, <<SpeedCls, "receiveWanSpeedBps">>,
     <<CountCls, "main">>, <<CountCls, "guest">>, <<CountCls, "total">>}

(* C10: the setup creates five sensors, one of each kind, for every system *)
(* of the snapshot it runs on and none for another system; the unique ids  *)
(* of the sensors are pairwise distinct; and once the platform is set up   *)
(* no step changes the unique id of a sensor.                              *)
C10_FiveSensorsWithDistinctIds ==
    [][ /\ last'.op = "setup" =>
              /\ Len(entities') = 5 * Cardinality(DOMAIN data)
              /\ \A i \in 1..Len(entities') :
                    entities'[i]._system_id \in DOMAIN data
              /\ \A sys \in DOMAIN data : \A k \in FiveKinds :
                    Cardinality({i \in 1..Len(entities') :
                        /\ entities'[i]._system_id = sys
                        /\ Kind(entities'[i]) = k}) = 1
        /\ \A i, j \in 1..Len(entities') :
              i # j => unique_id(entities'[i]) # unique_id(entities'[j])
        /\ platform.loaded =>
              /\ Len(entities') = Len(entities)
              /\ \A i \in 1..Len(entities) :
                    unique_id(entities'[i]) = unique_id(entities[i])
      ]_vars

(* Fifteen sensors of three systems exist, the snapshot has since lost     *)
(* two of the systems, and a unique id was read.                           *)
C10_Witness ==
    /\ platform.loaded
    /\ Len(entities) = 15
    /\ DOMAIN data = {"sys2"}
    /\ last.op = "unique_id"
    /\ last.res = Return(PyStr("sys1_device_count_device_count_main"))

====
